---- MODULE Spec2Model ----
(***************************************************************************)
(* MultiMap<K, V, S, N> of src/src/lib.rs: a HashMap from keys to          *)
(* SmallVec groups of values.  The table is the variable inner; the        *)
(* operations of the impl blocks are operators on a table value, and the   *)
(* actions apply them to inner.                                            *)
(***************************************************************************)
EXTENDS Integers, Sequences, FiniteSets, TLC

\* Longest group a call may build (guards of the growing operations).
MaxLen == 3
\* Longest sequence handed to insert_many / insert_many_from_slice.
MaxMany == 2
\* Longest sequence of (key, value) pairs fed to a loop of insert calls.
MaxCalls == 3
\* Longest group of the tables compared with ==.
MaxEqLen == 2

Keys == {"k1", "k2"}
Values == {42, 99}

VARIABLES
    inner,   \* MultiMap.inner: the HashMap, a function from its keys to groups
    handle,  \* the key whose group a live get_all_mut handle borrows, or NoHandle
    prev,    \* inner as it was when the last call started
    last,    \* the last call: its name, its arguments and what it returned
    calls,   \* the items an insert loop or an extend call iterates over
    pc,      \* how many items of calls have been consumed
    other    \* a second table, the right-hand side of ==

vars == <<inner, handle, prev, last, calls, pc, other>>

NoHandle == "none"
NoKey == "none"

\* Option<T>: None is the empty sequence, Some(x) the one-element sequence.
None == <<>>
Some(x) == <<x>>

RECURSIVE SeqsUpTo(_, _)
SeqsUpTo(S, n) ==
    IF n = 0 THEN {<<>>}
    ELSE LET shorter == SeqsUpTo(S, n - 1)
         IN  shorter \cup {Append(s, x) : s \in {t \in shorter : Len(t) = n - 1}, x \in S}

\* The predicates retain is called with: p holds of (k, v) iff <<k, v>> \in p.
Predicates == SUBSET (Keys \X Values)

----------------------------------------------------------------------------
(* SmallVec *)

\* Faulty variant of smallvec!: the new group is created without the value.
smallvec_empty(v) == <<>>

smallvec(v) == <<v>>

\* Faulty variant of pop: yields the last value and leaves it in the group.
pop_keep(g) == IF Len(g) = 0
               THEN [vec |-> g, ret |-> None]
               ELSE [vec |-> g, ret |-> Some(g[Len(g)])]

\* Faulty variant of push: the value lands before the group.
push_front(g, v) == <<v>> \o g

push(g, v) == Append(g, v)

\* Faulty variant of pop: the first value is taken, not the last.
pop_front(g) == IF Len(g) = 0
                THEN [vec |-> g, ret |-> None]
                ELSE [vec |-> Tail(g), ret |-> Some(Head(g))]

pop(g) == IF Len(g) = 0
          THEN [vec |-> g, ret |-> None]
          ELSE [vec |-> SubSeq(g, 1, Len(g) - 1), ret |-> Some(g[Len(g)])]

\* Faulty variant of extend: the items arrive in reverse order.
RECURSIVE extend_reversed(_, _)
extend_reversed(g, s) ==
    IF s = <<>> THEN g ELSE Append(extend_reversed(g, Tail(s)), Head(s))

\* Iterator-driven extend: one push per item, in iteration order.
RECURSIVE extend(_, _)
extend(g, s) == IF s = <<>> THEN g ELSE extend(push(g, Head(s)), Tail(s))

collect(s) == extend(<<>>, s)

\* Faulty variant of extend_from_slice: the slice lands before the group.
extend_from_slice_front(g, s) == s \o g

extend_from_slice(g, s) == g \o s

from_slice(s) == s

\* Slice get(i) with a zero-based index.
vec_get(g, i) == IF i < Len(g) THEN Some(g[i + 1]) ELSE None

first(g) == vec_get(g, 0)

swap(g, i, j) == [g EXCEPT ![i] = g[j], ![j] = g[i]]

\* SmallVec::retain: kept items are swapped down over the deleted ones, then
\* the tail is truncated.  i is one-based here.
RECURSIVE vec_retain_from(_, _, _, _, _)
vec_retain_from(g, i, del, k, p) ==
    IF i > Len(g) THEN SubSeq(g, 1, Len(g) - del)
    ELSE IF <<k, g[i]>> \notin p THEN vec_retain_from(g, i + 1, del + 1, k, p)
    ELSE IF del > 0 THEN vec_retain_from(swap(g, i - del, i), i + 1, del, k, p)
    ELSE vec_retain_from(g, i + 1, del, k, p)

\* Faulty variant of vec_retain: counts the deletions and truncates, without
\* moving the kept items down.
vec_retain_truncate(g, k, p) ==
    SubSeq(g, 1, Cardinality({i \in 1 .. Len(g) : <<k, g[i]>> \in p}))

\* Faulty variant of vec_retain: an item is deleted in place and the item
\* that slides into its position is not examined.
RECURSIVE vec_retain_skip_from(_, _, _, _)
vec_retain_skip_from(g, i, k, p) ==
    IF i > Len(g) THEN g
    ELSE IF <<k, g[i]>> \notin p
         THEN vec_retain_skip_from(SubSeq(g, 1, i - 1) \o SubSeq(g, i + 1, Len(g)), i + 1, k, p)
         ELSE vec_retain_skip_from(g, i + 1, k, p)

vec_retain_skip(g, k, p) == vec_retain_skip_from(g, 1, k, p)

vec_retain(g, k, p) == vec_retain_from(g, 1, 0, k, p)

----------------------------------------------------------------------------
(* MultiMap: the operations as functions of the table m *)

new == [x \in {} |-> <<>>]

\* Faulty variant of insert: an occupied entry is overwritten.
insert_replace(m, k, v) ==
    IF k \in DOMAIN m
    THEN [m EXCEPT ![k] = <<v>>]
    ELSE m @@ (k :> <<v>>)

\* Faulty variant of insert: the value goes to the front of an occupied entry.
insert_front(m, k, v) ==
    IF k \in DOMAIN m
    THEN [m EXCEPT ![k] = <<v>> \o @]
    ELSE m @@ (k :> <<v>>)

insert(m, k, v) ==
    IF k \in DOMAIN m
    THEN [m EXCEPT ![k] = push(@, v)]
    ELSE m @@ (k :> smallvec(v))

\* Faulty variant of insert_many: an occupied entry is overwritten.
insert_many_replace(m, k, v) ==
    IF k \in DOMAIN m
    THEN [m EXCEPT ![k] = v]
    ELSE m @@ (k :> v)

insert_many(m, k, v) ==
    IF k \in DOMAIN m
    THEN [m EXCEPT ![k] = extend(@, v)]
    ELSE m @@ (k :> collect(v))

insert_many_from_slice(m, k, v) ==
    IF k \in DOMAIN m
    THEN [m EXCEPT ![k] = extend_from_slice(@, v)]
    ELSE m @@ (k :> from_slice(v))

contains_key(m, k) == k \in DOMAIN m

\* Faulty variant of len: only the keys that hold a value are counted.
len_nonempty(m) == Cardinality({k \in DOMAIN m : m[k] # <<>>})

len(m) == Cardinality(DOMAIN m)

is_empty(m) == DOMAIN m = {}

keys(m) == DOMAIN m

\* Faulty variant of remove: the group is drained and the key stays.
remove_keep_key(m, k) ==
    [map |-> IF k \in DOMAIN m THEN [m EXCEPT ![k] = <<>>] ELSE m,
     ret |-> IF k \in DOMAIN m THEN Some(m[k]) ELSE None]

\* Faulty variant of remove: the group is returned and the entry stays.
remove_peek(m, k) ==
    [map |-> m,
     ret |-> IF k \in DOMAIN m THEN Some(m[k]) ELSE None]

\* remove: the table without k, and the removed group as the values its
\* iterator yields.
remove(m, k) ==
    [map |-> [x \in (DOMAIN m) \ {k} |-> m[x]],
     ret |-> IF k \in DOMAIN m THEN Some(m[k]) ELSE None]

\* Faulty variant of get: the last value of the group.
get_last(m, k) ==
    IF k \in DOMAIN m /\ m[k] # <<>> THEN Some(m[k][Len(m[k])]) ELSE None

get(m, k) == IF k \in DOMAIN m THEN vec_get(m[k], 0) ELSE None

get_mut(m, k) == IF k \in DOMAIN m THEN vec_get(m[k], 0) ELSE None

\* Faulty variant of get_slice: an empty group reads as absent.
get_slice_nonempty(m, k) ==
    IF k \in DOMAIN m /\ m[k] # <<>> THEN Some(m[k]) ELSE None

get_slice(m, k) == IF k \in DOMAIN m THEN Some(m[k]) ELSE None

\* Faulty variant of get_slice_mut: an absent key reads as an empty slice.
get_slice_mut_or_empty(m, k) == IF k \in DOMAIN m THEN Some(m[k]) ELSE Some(<<>>)

get_slice_mut(m, k) == IF k \in DOMAIN m THEN Some(m[k]) ELSE None

get_all_mut(m, k) == IF k \in DOMAIN m THEN Some(k) ELSE None

\* Faulty variant of is_vec: any non-empty group counts.
is_vec_nonempty(m, k) == k \in DOMAIN m /\ Len(m[k]) > 0

is_vec(m, k) ==
    LET s == get_slice(m, k)
    IN  IF s # None THEN Len(s[1]) > 1 ELSE FALSE

\* Faulty variant of iter: each key is paired with the last value of its group.
iter_last(m) == {<<k, m[k][Len(m[k])]>> : k \in {x \in DOMAIN m : m[x] # <<>>}}

\* iter: the pairs the iterator yields, in no order.  filter_map drops a key
\* whose group has no first value.
iter(m) == {<<k, first(m[k])[1]>> : k \in {x \in DOMAIN m : first(m[x]) # None}}

iter_mut(m) == {<<k, first(m[k])[1]>> : k \in {x \in DOMAIN m : first(m[x]) # None}}

\* Faulty variant of iter_all: keys with an empty group are skipped.
iter_all_nonempty(m) == {<<k, m[k]>> : k \in {x \in DOMAIN m : m[x] # <<>>}}

iter_all(m) == {<<k, m[k]>> : k \in DOMAIN m}

iter_all_mut(m) == {<<k, m[k]>> : k \in DOMAIN m}

\* Faulty variant of as_mut_slice: the reference also lets the group grow.
as_mut_slice_grow(g) ==
    [1 .. Len(g) -> Values] \cup [1 .. Len(g) + 1 -> Values]

\* as_mut_slice: what a caller holding the &mut [V] of group g can leave
\* behind, any values at the positions g has.
as_mut_slice(g) == [1 .. Len(g) -> Values]

\* first_mut: what a caller holding the &mut V of the first value of g can
\* leave behind; nothing when g has no first value.
first_mut(g) == IF g = <<>> THEN {} ELSE {[g EXCEPT ![1] = v] : v \in Values}

\* Faulty variant of clear: the groups are emptied and the keys stay.
clear_groups(m) == [k \in DOMAIN m |-> <<>>]

clear(m) == [x \in {} |-> <<>>]

\* Faulty variant of retain: the groups are filtered and empty ones are kept.
retain_keep_empty(m, p) == [k \in DOMAIN m |-> vec_retain(m[k], k, p)]

retain(m, p) ==
    LET filtered == [k \in DOMAIN m |-> vec_retain(m[k], k, p)]
    IN  [k \in {x \in DOMAIN filtered : filtered[x] # <<>>} |-> filtered[k]]

\* Faulty variant of slice_eq: the same values, in any order and number.
slice_eq_unordered(a, b) ==
    {a[i] : i \in 1 .. Len(a)} = {b[i] : i \in 1 .. Len(b)}

\* Faulty variant of slice_eq: the values are compared pairwise as far as the
\* shorter slice goes, and the lengths are not.
slice_eq_zip(a, b) ==
    \A i \in 1 .. (IF Len(a) < Len(b) THEN Len(a) ELSE Len(b)) : a[i] = b[i]

\* Slice equality: the same length and equal values position by position.
slice_eq(a, b) == Len(a) = Len(b) /\ \A i \in 1 .. Len(a) : a[i] = b[i]

\* Faulty variant of eq: the key counts are not compared.
eq_no_len(a, b) ==
    \A kv \in iter_all(a) :
        LET o == get_slice(b, kv[1])
        IN  IF o = None THEN FALSE ELSE slice_eq(kv[2], o[1])

\* PartialEq::eq of table a (self) with table b (other).
eq(a, b) ==
    IF len(a) # len(b) THEN FALSE
    ELSE \A kv \in iter_all(a) :
            LET o == get_slice(b, kv[1])
            IN  IF o = None THEN FALSE ELSE slice_eq(kv[2], o[1])

\* The outcome of an indexing expression: a value, or a panic and its message.
Returned(v) == [panic |-> "", val |-> Some(v)]
Panicked(msg) == [panic |-> msg, val |-> None]

NoEntry == "no entry found for key"
OutOfBounds == "index out of bounds"

\* v[i] on a group, with a zero-based index.
vec_index(g, i) == IF i < Len(g) THEN Returned(g[i + 1]) ELSE Panicked(OutOfBounds)

\* Faulty variant of index: the last value of the group.
index_last(m, k) ==
    IF k \notin DOMAIN m THEN Panicked(NoEntry)
    ELSE IF m[k] = <<>> THEN Panicked(OutOfBounds)
    ELSE Returned(m[k][Len(m[k])])

\* Faulty variant of index: an absent key yields no value and no panic.
index_quiet(m, k) ==
    IF k \in DOMAIN m THEN vec_index(m[k], 0) ELSE [panic |-> "", val |-> None]

\* Index::index: get, then v[0] inside map, then expect.
index(m, k) ==
    LET entry == IF k \in DOMAIN m THEN Some(m[k]) ELSE None
    IN  IF entry = None THEN Panicked(NoEntry) ELSE vec_index(entry[1], 0)

----------------------------------------------------------------------------
(* Calls *)

Call(op, k, vs, p, i, ret) ==
    [op |-> op, k |-> k, vs |-> vs, p |-> p, i |-> i, ret |-> ret]

Size(m, k) == IF k \in DOMAIN m THEN Len(m[k]) ELSE 0

Init ==
    /\ inner = new
    /\ handle = NoHandle
    /\ prev = new
    /\ last = Call("new", NoKey, <<>>, {}, 0, None)
    /\ calls = <<>>
    /\ pc = 0
    /\ other = new

InsertCall(k, v) ==
    /\ handle = NoHandle
    /\ Size(inner, k) < MaxLen
    /\ inner' = insert(inner, k, v)
    /\ prev' = inner
    /\ last' = Call("insert", k, <<v>>, {}, 0, None)
    /\ UNCHANGED <<handle, calls, pc, other>>

InsertManyCall(k, s) ==
    /\ handle = NoHandle
    /\ Size(inner, k) + Len(s) <= MaxLen
    /\ inner' = insert_many(inner, k, s)
    /\ prev' = inner
    /\ last' = Call("insert_many", k, s, {}, 0, None)
    /\ UNCHANGED <<handle, calls, pc, other>>

InsertManyFromSliceCall(k, s) ==
    /\ handle = NoHandle
    /\ Size(inner, k) + Len(s) <= MaxLen
    /\ inner' = insert_many_from_slice(inner, k, s)
    /\ prev' = inner
    /\ last' = Call("insert_many_from_slice", k, s, {}, 0, None)
    /\ UNCHANGED <<handle, calls, pc, other>>

RemoveCall(k) ==
    /\ handle = NoHandle
    /\ inner' = remove(inner, k).map
    /\ prev' = inner
    /\ last' = Call("remove", k, <<>>, {}, 0, remove(inner, k).ret)
    /\ UNCHANGED <<handle, calls, pc, other>>

RetainCall(p) ==
    /\ handle = NoHandle
    /\ inner' = retain(inner, p)
    /\ prev' = inner
    /\ last' = Call("retain", NoKey, <<>>, p, 0, None)
    /\ UNCHANGED <<handle, calls, pc, other>>

ClearCall ==
    /\ handle = NoHandle
    /\ inner' = clear(inner)
    /\ prev' = inner
    /\ last' = Call("clear", NoKey, <<>>, {}, 0, None)
    /\ UNCHANGED <<handle, calls, pc, other>>

TableNext ==
    \/ \E k \in Keys, v \in Values : InsertCall(k, v)
    \/ \E k \in Keys, s \in SeqsUpTo(Values, MaxMany) : InsertManyCall(k, s)
    \/ \E k \in Keys, s \in SeqsUpTo(Values, MaxMany) : InsertManyFromSliceCall(k, s)
    \/ \E k \in Keys : RemoveCall(k)
    \/ \E p \in Predicates : RetainCall(p)
    \/ ClearCall

\* The table driven only by its own mutating operations.
SpecTable == Init /\ [][TableNext]_vars

\* get_mut(k) and a write through the reference it returns.
GetMutWrite(k, v) ==
    /\ handle = NoHandle
    /\ inner' = IF get_mut(inner, k) # None THEN [inner EXCEPT ![k][1] = v] ELSE inner
    /\ prev' = inner
    /\ last' = Call("get_mut", k, <<v>>, {}, 0, get_mut(inner, k))
    /\ UNCHANGED <<handle, calls, pc, other>>

\* get_slice_mut(k) and a write at position i (zero-based) of the slice it
\* returns; the caller indexes within the slice, and writes nothing when the
\* result is None or an empty slice.
GetSliceMutWrite(k, i, v) ==
    /\ handle = NoHandle
    /\ i < Size(inner, k) \/ i = 0
    /\ inner' = IF get_slice_mut(inner, k) # None /\ i < Size(inner, k)
                 THEN [inner EXCEPT ![k][i + 1] = v]
                 ELSE inner
    /\ prev' = inner
    /\ last' = Call("get_slice_mut", k, <<v>>, {}, i, get_slice_mut(inner, k))
    /\ UNCHANGED <<handle, calls, pc, other>>

\* get_all_mut(k): the handle borrows the table until it is dropped.
GetAllMutCall(k) ==
    /\ handle = NoHandle
    /\ handle' = IF get_all_mut(inner, k) # None THEN k ELSE NoHandle
    /\ prev' = inner
    /\ last' = Call("get_all_mut", k, <<>>, {}, 0, get_all_mut(inner, k))
    /\ UNCHANGED <<inner, calls, pc, other>>

HandlePush(v) ==
    /\ handle # NoHandle
    /\ Len(inner[handle]) < MaxLen
    /\ inner' = [inner EXCEPT ![handle] = push(@, v)]
    /\ prev' = inner
    /\ last' = Call("push", handle, <<v>>, {}, 0, None)
    /\ UNCHANGED <<handle, calls, pc, other>>

HandlePop ==
    /\ handle # NoHandle
    /\ inner' = [inner EXCEPT ![handle] = pop(@).vec]
    /\ prev' = inner
    /\ last' = Call("pop", handle, <<>>, {}, 0, pop(inner[handle]).ret)
    /\ UNCHANGED <<handle, calls, pc, other>>

HandleAsSliceWrite(i, v) ==
    /\ handle # NoHandle
    /\ i < Len(inner[handle])
    /\ inner' = [inner EXCEPT ![handle][i + 1] = v]
    /\ prev' = inner
    /\ last' = Call("as_slice", handle, <<v>>, {}, i, None)
    /\ UNCHANGED <<handle, calls, pc, other>>

HandleDrop ==
    /\ handle # NoHandle
    /\ handle' = NoHandle
    /\ prev' = inner
    /\ last' = Call("drop", handle, <<>>, {}, 0, None)
    /\ UNCHANGED <<inner, calls, pc, other>>

\* map[k]: the table is only read; a panic unwinds out of the expression.
IndexCall(k) ==
    /\ handle = NoHandle
    /\ prev' = inner
    /\ last' = Call("index", k, <<>>, {}, 0, index(inner, k))
    /\ UNCHANGED <<inner, handle, calls, pc, other>>

\* The &self operations: the table is only read.
ContainsKeyCall(k) ==
    /\ handle = NoHandle
    /\ prev' = inner
    /\ last' = Call("contains_key", k, <<>>, {}, 0, Some(contains_key(inner, k)))
    /\ UNCHANGED <<inner, handle, calls, pc, other>>

LenCall ==
    /\ handle = NoHandle
    /\ prev' = inner
    /\ last' = Call("len", NoKey, <<>>, {}, 0, Some(len(inner)))
    /\ UNCHANGED <<inner, handle, calls, pc, other>>

IsEmptyCall ==
    /\ handle = NoHandle
    /\ prev' = inner
    /\ last' = Call("is_empty", NoKey, <<>>, {}, 0, Some(is_empty(inner)))
    /\ UNCHANGED <<inner, handle, calls, pc, other>>

GetCall(k) ==
    /\ handle = NoHandle
    /\ prev' = inner
    /\ last' = Call("get", k, <<>>, {}, 0, get(inner, k))
    /\ UNCHANGED <<inner, handle, calls, pc, other>>

GetSliceCall(k) ==
    /\ handle = NoHandle
    /\ prev' = inner
    /\ last' = Call("get_slice", k, <<>>, {}, 0, get_slice(inner, k))
    /\ UNCHANGED <<inner, handle, calls, pc, other>>

IsVecCall(k) ==
    /\ handle = NoHandle
    /\ prev' = inner
    /\ last' = Call("is_vec", k, <<>>, {}, 0, Some(is_vec(inner, k)))
    /\ UNCHANGED <<inner, handle, calls, pc, other>>

KeysCall ==
    /\ handle = NoHandle
    /\ prev' = inner
    /\ last' = Call("keys", NoKey, <<>>, {}, 0, Some(keys(inner)))
    /\ UNCHANGED <<inner, handle, calls, pc, other>>

IterCall ==
    /\ handle = NoHandle
    /\ prev' = inner
    /\ last' = Call("iter", NoKey, <<>>, {}, 0, Some(iter(inner)))
    /\ UNCHANGED <<inner, handle, calls, pc, other>>

IterAllCall ==
    /\ handle = NoHandle
    /\ prev' = inner
    /\ last' = Call("iter_all", NoKey, <<>>, {}, 0, Some(iter_all(inner)))
    /\ UNCHANGED <<inner, handle, calls, pc, other>>

\* iter_mut(): the caller writes through the &mut V of the pair yielded for k
\* and leaves the group g behind.
IterMutWrite(k) ==
    /\ handle = NoHandle
    /\ k \in {kv[1] : kv \in iter_mut(inner)}
    /\ \E g \in first_mut(inner[k]) :
          /\ inner' = [inner EXCEPT ![k] = g]
          /\ last' = Call("iter_mut", k, g, {}, 0, Some(iter_mut(inner)))
    /\ prev' = inner
    /\ UNCHANGED <<handle, calls, pc, other>>

\* iter_all_mut(): the caller writes through the &mut [V] of the pair yielded
\* for k and leaves the group g behind.
IterAllMutWrite(k) ==
    /\ handle = NoHandle
    /\ k \in {kv[1] : kv \in iter_all_mut(inner)}
    /\ \E g \in as_mut_slice(inner[k]) :
          /\ inner' = [inner EXCEPT ![k] = g]
          /\ last' = Call("iter_all_mut", k, g, {}, 0, Some(iter_all_mut(inner)))
    /\ prev' = inner
    /\ UNCHANGED <<handle, calls, pc, other>>

Next ==
    \/ \E k \in Keys, v \in Values : InsertCall(k, v)
    \/ \E k \in Keys, s \in SeqsUpTo(Values, MaxMany) : InsertManyCall(k, s)
    \/ \E k \in Keys, s \in SeqsUpTo(Values, MaxMany) : InsertManyFromSliceCall(k, s)
    \/ \E k \in Keys : RemoveCall(k)
    \/ \E p \in Predicates : RetainCall(p)
    \/ ClearCall
    \/ \E k \in Keys, v \in Values : GetMutWrite(k, v)
    \/ \E k \in Keys, i \in 0 .. MaxLen, v \in Values : GetSliceMutWrite(k, i, v)
    \/ \E k \in Keys : GetAllMutCall(k)
    \/ \E v \in Values : HandlePush(v)
    \/ HandlePop
    \/ \E i \in 0 .. MaxLen, v \in Values : HandleAsSliceWrite(i, v)
    \/ HandleDrop
    \/ \E k \in Keys : IndexCall(k)
    \/ \E k \in Keys : ContainsKeyCall(k)
    \/ LenCall
    \/ IsEmptyCall
    \/ \E k \in Keys : GetCall(k)
    \/ \E k \in Keys : GetSliceCall(k)
    \/ \E k \in Keys : IsVecCall(k)
    \/ KeysCall
    \/ IterCall
    \/ IterAllCall
    \/ \E k \in Keys : IterMutWrite(k)
    \/ \E k \in Keys : IterAllMutWrite(k)

Spec == Init /\ [][Next]_vars

----------------------------------------------------------------------------
(* Extend: a table extended from an iterable, as one call *)

MaxVecs == 2

\* SmallVec::from(Vec): the vector's items, in the vector's order.
from_vec(v) == [i \in 1 .. Len(v) |-> v[i]]

\* Extend<(K, V)>::extend: `for (k, v) in iter { self.insert(k, v); }`.
RECURSIVE extend_pairs(_, _)
extend_pairs(m, it) ==
    IF it = <<>> THEN m
    ELSE extend_pairs(insert(m, Head(it)[1], Head(it)[2]), Tail(it))

\* Extend<(&K, &V)>::extend: copies each pair, then extends from the copies.
extend_pair_refs(m, it) ==
    extend_pairs(m, [i \in 1 .. Len(it) |-> <<it[i][1], it[i][2]>>])

\* Faulty variant of extend_entry: an occupied entry is overwritten.
extend_entry_replace(m, k, values) ==
    IF k \in DOMAIN m
    THEN [m EXCEPT ![k] = from_vec(values)]
    ELSE m @@ (k :> from_vec(values))

\* The body of the loop of Extend<(K, Vec<V>)>::extend: the entry of k,
\* occupied or vacant.
extend_entry(m, k, values) ==
    IF k \in DOMAIN m
    THEN [m EXCEPT ![k] = extend(@, values)]
    ELSE m @@ (k :> from_vec(values))

\* Extend<(K, Vec<V>)>::extend: `for (k, values) in iter { match entry }`.
RECURSIVE extend_vecs(_, _)
extend_vecs(m, it) ==
    IF it = <<>> THEN m
    ELSE extend_vecs(extend_entry(m, Head(it)[1], Head(it)[2]), Tail(it))

\* Extend<(&K, &Vec<V>)>::extend: values.to_owned(), then extends.
extend_vec_refs(m, it) ==
    extend_vecs(m, [i \in 1 .. Len(it) |-> <<it[i][1], from_vec(it[i][2])>>])

\* The tables whose groups hold at most one value; insert and insert_many
\* build each of them.
StartTables ==
    UNION {[D -> {<<>>} \cup {<<v>> : v \in Values}] : D \in SUBSET Keys}

PairIters == SeqsUpTo(Keys \X Values, MaxCalls)

\* The vectors of no, one or two values.
Vecs == {<<>>} \cup {<<v>> : v \in Values} \cup {<<v, w>> : v \in Values, w \in Values}

VecIters == SeqsUpTo(Keys \X Vecs, MaxVecs)

InitExtend ==
    /\ inner \in StartTables
    /\ handle = NoHandle
    /\ prev = inner
    /\ last = Call("new", NoKey, <<>>, {}, 0, None)
    /\ calls = <<>>
    /\ pc = 0
    /\ other = new

ExtendCall(it, byRef) ==
    /\ pc = 0
    /\ inner' = IF byRef THEN extend_pair_refs(inner, it) ELSE extend_pairs(inner, it)
    /\ prev' = inner
    /\ last' = Call("extend", NoKey, it, {}, 0, None)
    /\ pc' = 1
    /\ UNCHANGED <<handle, calls, other>>

ExtendVecCall(it, byRef) ==
    /\ pc = 0
    /\ inner' = IF byRef THEN extend_vec_refs(inner, it) ELSE extend_vecs(inner, it)
    /\ prev' = inner
    /\ last' = Call("extend_vecs", NoKey, it, {}, 0, None)
    /\ pc' = 1
    /\ UNCHANGED <<handle, calls, other>>

ExtendNext ==
    \/ \E it \in PairIters, byRef \in BOOLEAN : ExtendCall(it, byRef)
    \/ \E it \in VecIters, byRef \in BOOLEAN : ExtendVecCall(it, byRef)

SpecExtend == InitExtend /\ [][ExtendNext]_vars

----------------------------------------------------------------------------
(* multimap!: a table written as a list of key => value pairs *)

\* with_capacity: an empty table; the capacity is a hint no operation reads.
with_capacity(capacity) == [x \in {} |-> <<>>]

\* @count: the number of keys listed.
count(pairs) == Len(pairs)

\* `$( map.insert($key, $value); )*`: one insert per listed pair, as listed.
RECURSIVE multimap_inserts(_, _)
multimap_inserts(map, pairs) ==
    IF pairs = <<>> THEN map
    ELSE multimap_inserts(insert(map, Head(pairs)[1], Head(pairs)[2]), Tail(pairs))

\* Faulty variant of multimap: a key listed again overwrites its entry, as in
\* a map literal.
multimap_last_wins(pairs) ==
    [k \in {pairs[i][1] : i \in 1 .. Len(pairs)} |->
        <<pairs[CHOOSE i \in 1 .. Len(pairs) :
                  /\ pairs[i][1] = k
                  /\ \A j \in i + 1 .. Len(pairs) : pairs[j][1] # k][2]>>]

\* multimap!(k => v, ...)
multimap(pairs) == multimap_inserts(with_capacity(count(pairs)), pairs)

\* The pairs are in calls; other is the table built by hand, inner the one the
\* macro builds.
InitMacro ==
    /\ inner = new
    /\ other = new
    /\ handle = NoHandle
    /\ prev = new
    /\ last = Call("new", NoKey, <<>>, {}, 0, None)
    /\ calls \in SeqsUpTo(Keys \X Values, MaxCalls)
    /\ pc = 0

\* manual_map.insert(k, v) for the next listed pair.
ManualInsert ==
    /\ pc < Len(calls)
    /\ other' = insert(other, calls[pc + 1][1], calls[pc + 1][2])
    /\ last' = Call("insert", calls[pc + 1][1], <<calls[pc + 1][2]>>, {}, 0, None)
    /\ pc' = pc + 1
    /\ UNCHANGED <<inner, handle, prev, calls>>

\* let macro_map = multimap! { ... } with the same pairs.
MacroCall ==
    /\ pc = Len(calls)
    /\ last.op # "multimap"
    /\ inner' = multimap(calls)
    /\ prev' = inner
    /\ last' = Call("multimap", NoKey, calls, {}, 0, None)
    /\ UNCHANGED <<handle, calls, pc, other>>

MacroNext == ManualInsert \/ MacroCall

SpecMacro == InitMacro /\ [][MacroNext]_vars

----------------------------------------------------------------------------
(* A loop of insert calls over a sequence of pairs, on a new table *)

InitLoop ==
    /\ inner = new
    /\ handle = NoHandle
    /\ prev = new
    /\ last = Call("new", NoKey, <<>>, {}, 0, None)
    /\ calls \in SeqsUpTo(Keys \X Values, MaxCalls)
    /\ pc = 0
    /\ other = new

\* One iteration of `for (k, v) in iter { multimap.insert(k, v); }`.
LoopInsert ==
    /\ pc < Len(calls)
    /\ inner' = insert(inner, calls[pc + 1][1], calls[pc + 1][2])
    /\ prev' = inner
    /\ last' = Call("insert", calls[pc + 1][1], <<calls[pc + 1][2]>>, {}, 0, None)
    /\ pc' = pc + 1
    /\ UNCHANGED <<handle, calls, other>>

SpecLoop == InitLoop /\ [][LoopInsert]_vars

----------------------------------------------------------------------------
(* Two tables compared with == *)

\* The tables in which every key holds one or two values.
FullTables == [Keys -> Vecs \ {<<>>}]

\* A table that holds every key, then driven by its mutating operations: a
\* key that is absent has been dropped.
InitFull ==
    /\ inner \in FullTables
    /\ handle = NoHandle
    /\ prev = inner
    /\ last = Call("new", NoKey, <<>>, {}, 0, None)
    /\ calls = <<>>
    /\ pc = 0
    /\ other = new

SpecFull == InitFull /\ [][TableNext]_vars

\* The tables whose groups hold at most n values; insert_many builds each.
Tables(n) == UNION {[D -> SeqsUpTo(Values, n)] : D \in SUBSET Keys}

InitPair ==
    /\ inner \in Tables(MaxEqLen)
    /\ other \in Tables(MaxEqLen)
    /\ handle = NoHandle
    /\ prev = inner
    /\ last = Call("new", NoKey, <<>>, {}, 0, None)
    /\ calls = <<>>
    /\ pc = 0

\* inner == other
EqCall ==
    /\ prev' = inner
    /\ last' = Call("eq", NoKey, <<>>, {}, 0, Some(eq(inner, other)))
    /\ UNCHANGED <<inner, handle, calls, pc, other>>

SpecPair == InitPair /\ [][EqCall]_vars

----------------------------------------------------------------------------
(* Properties *)

GroupOf(m, k) == IF k \in DOMAIN m THEN m[k] ELSE <<>>

NoEmptyGroup(m) == \A k \in DOMAIN m : m[k] # <<>>

ManyOps == {"insert_many", "insert_many_from_slice"}

\* The last call was insert_many / insert_many_from_slice with no values on a
\* key the table did not hold.
EmptyManyOnAbsent ==
    /\ last.op \in ManyOps
    /\ last.vs = <<>>
    /\ ~contains_key(prev, last.k)

\* C1 as stated: in every state reached by insert, insert_many,
\* insert_many_from_slice, remove, retain and clear alone, every key of the
\* table maps to a non-empty group.
C1_EveryGroupNonEmpty == NoEmptyGroup(inner)

\* C1 amended: each of insert, insert_many, insert_many_from_slice, remove,
\* retain and clear returns with every group non-empty if it started so,
\* except insert_many / insert_many_from_slice called with no values on an
\* absent key; retain returns with every group non-empty from any state.
C1_NonEmptyMaintained ==
    /\ (NoEmptyGroup(prev) /\ ~EmptyManyOnAbsent) => NoEmptyGroup(inner)
    /\ last.op = "retain" => NoEmptyGroup(inner)

C1_Witness ==
    /\ last.op = "insert_many"
    /\ last.vs # <<>>
    /\ ~contains_key(prev, last.k)
    /\ prev # new
    /\ NoEmptyGroup(prev)

\* The values paired with k in the pairs cs, in the order of cs.
ValuesFor(cs, k) ==
    LET sel == SelectSeq(cs, LAMBDA c : c[1] = k)
    IN  [i \in 1 .. Len(sel) |-> sel[i][2]]

Consumed == SubSeq(calls, 1, pc)

\* C2: after any sequence of insert calls on a new table, get_slice(k) is
\* exactly the values inserted under k, in call order and with duplicates,
\* for every key k (absent when none was inserted); an insert under another
\* key leaves k's group as it was.
C2_InsertOrder ==
    /\ \A k \in Keys :
          IF Len(ValuesFor(Consumed, k)) = 0
          THEN get_slice(inner, k) = None
          ELSE get_slice(inner, k) = Some(ValuesFor(Consumed, k))
    /\ last.op = "insert" =>
          \A k \in Keys \ {last.k} : get_slice(inner, k) = get_slice(prev, k)

C2_Witness ==
    /\ pc = 3
    /\ calls[1] = calls[3]
    /\ calls[2][1] # calls[1][1]
    /\ get_slice(inner, calls[1][1]) = Some(<<calls[1][2], calls[1][2]>>)

\* The values of g for which p holds with key k, in the order of g.
Filter(g, k, p) == SelectSeq(g, LAMBDA v : <<k, v>> \in p)

\* C3: after retain(p), from any state, a key whose previous group has values
\* satisfying p maps to exactly those values in their previous order; every
\* other key is absent and not counted by len; nothing is added.
C3_Retain ==
    last.op = "retain" =>
        /\ \A k \in Keys :
              IF contains_key(prev, k) /\ Filter(prev[k], k, last.p) # <<>>
              THEN get_slice(inner, k) = Some(Filter(prev[k], k, last.p))
              ELSE ~contains_key(inner, k)
        /\ len(inner) =
              Cardinality({k \in DOMAIN prev : Filter(prev[k], k, last.p) # <<>>})

C3_Witness ==
    /\ last.op = "retain"
    /\ \E k \in DOMAIN prev : prev[k] = <<>> /\ ~contains_key(inner, k)
    /\ \E k \in DOMAIN inner :
          /\ Len(prev[k]) = 3
          /\ inner[k] = <<prev[k][1], prev[k][3]>>
          /\ prev[k][2] # prev[k][1]

\* C4: remove(k) of a present key returns the whole group in stored order and
\* leaves k absent: contains_key false, get and get_slice None, len one less,
\* every other key's group unchanged, and a second remove(k) returns None.
C4_Remove ==
    (last.op = "remove" /\ contains_key(prev, last.k)) =>
        /\ last.ret = Some(prev[last.k])
        /\ ~contains_key(inner, last.k)
        /\ get(inner, last.k) = None
        /\ get_slice(inner, last.k) = None
        /\ len(inner) = len(prev) - 1
        /\ \A k \in Keys \ {last.k} : get_slice(inner, k) = get_slice(prev, k)
        /\ remove(inner, last.k).ret = None
        /\ remove(inner, last.k).map = inner

C4_Witness ==
    /\ last.op = "remove"
    /\ len(prev) = 2
    /\ Len(prev[last.k]) = 3
    /\ prev[last.k][1] # prev[last.k][3]
    /\ last.ret = Some(prev[last.k])

\* A remove(k) call directly follows an insert(k, v) call.
InsertThenRemove ==
    /\ last.op = "insert"
    /\ last'.op = "remove"
    /\ last'.k = last.k

\* C5 as stated: from any state, insert(k, v) directly followed by remove(k)
\* returns exactly [v] and leaves k absent with get(k) None.
C5_InsertRemoveReturnsValue ==
    [][InsertThenRemove =>
        /\ last'.ret = Some(last.vs)
        /\ ~contains_key(inner', last.k)
        /\ get(inner', last.k) = None]_vars

\* C5 amended: insert(k, v) directly followed by remove(k) returns the values
\* k held before the insert followed by v, so exactly [v] when k was absent or
\* held no value, and leaves k absent with get(k) None.
C5_InsertRemoveReturnsGroup ==
    [][InsertThenRemove =>
        /\ last'.ret = Some(GroupOf(prev, last.k) \o last.vs)
        /\ GroupOf(prev, last.k) = <<>> => last'.ret = Some(last.vs)
        /\ ~contains_key(inner', last.k)
        /\ get(inner', last.k) = None]_vars

C5_Witness ==
    /\ last.op = "remove"
    /\ Len(GroupOf(prev, last.k)) = 1
    /\ last.ret = Some(prev[last.k])
    /\ ~contains_key(inner, last.k)
    /\ inner # new

\* insert(k, x) called once for each x of s, in order.
RECURSIVE insert_each(_, _, _)
insert_each(m, k, s) ==
    IF s = <<>> THEN m ELSE insert_each(insert(m, k, Head(s)), k, Tail(s))

\* C6 as stated: insert_many(k, s) leaves the table as one insert(k, x) per
\* x of s would, for every s including the empty sequence.
C6_InsertManyAsInserts ==
    last.op = "insert_many" => inner = insert_each(prev, last.k, last.vs)

\* C6 amended: insert_many(k, s) leaves the table as one insert(k, x) per x
\* of s would, unless s is empty and k is absent: then insert_many adds k
\* with an empty group, and no insert call leaves the table unchanged.
C6_InsertManyAsInsertsUnlessEmpty ==
    last.op = "insert_many" =>
        IF EmptyManyOnAbsent
        THEN /\ keys(inner) = keys(prev) \cup {last.k}
             /\ len(inner) = len(prev) + 1
             /\ get_slice(inner, last.k) = Some(<<>>)
             /\ \A k \in keys(prev) : inner[k] = prev[k]
             /\ insert_each(prev, last.k, last.vs) = prev
        ELSE inner = insert_each(prev, last.k, last.vs)

C6_Witness ==
    /\ last.op = "insert_many"
    /\ Len(last.vs) = 2
    /\ last.vs[1] # last.vs[2]
    /\ contains_key(prev, last.k)
    /\ prev[last.k] # <<>>
    /\ len(prev) = 2

\* C7: insert_many(k, s) on an absent key gives get_slice(k) = s; on a
\* present key it gives the previous group followed by s in order, values
\* already in the group repeated if s holds them.
C7_InsertManyAppends ==
    last.op = "insert_many" =>
        /\ ~contains_key(prev, last.k) => get_slice(inner, last.k) = Some(last.vs)
        /\ contains_key(prev, last.k) =>
              get_slice(inner, last.k) = Some(prev[last.k] \o last.vs)

C7_Witness ==
    /\ last.op = "insert_many"
    /\ contains_key(prev, last.k)
    /\ Len(prev[last.k]) = 1
    /\ Len(last.vs) = 2
    /\ last.vs[1] = prev[last.k][1]
    /\ last.vs[2] # last.vs[1]
    /\ get_slice(inner, last.k) = Some(<<last.vs[1], last.vs[1], last.vs[2]>>)

\* The last call was a pop through the handle that took the last value of
\* the group.
PoppedLast ==
    /\ last.op = "pop"
    /\ Len(prev[last.k]) = 1

\* The last call removed key k or gave it a value.
Touched(k) ==
    \/ last.op \in {"retain", "clear"}
    \/ last.op = "remove" /\ last.k = k
    \/ last.op \in {"insert", "push"} /\ last.k = k
    \/ last.op \in ManyOps /\ last.k = k /\ last.vs # <<>>

\* C8 as stated: once every value of k was popped through the handle, get,
\* get_mut and get_slice report absent for k while contains_key, len and keys
\* report it present.
C8_PoppedReadsAbsent ==
    PoppedLast =>
        /\ get(inner, last.k) = None
        /\ get_mut(inner, last.k) = None
        /\ get_slice(inner, last.k) = None
        /\ contains_key(inner, last.k)
        /\ last.k \in keys(inner)
        /\ len(inner) = len(prev)

\* C8 amended: once every value of k was popped through the handle, k stays
\* mapped to an empty group: get and get_mut report absent, get_slice reports
\* the empty group, and contains_key, len and keys report k present, until a
\* call removes k (retain, remove, clear) or gives it a value (insert,
\* insert_many or insert_many_from_slice with values, push).
C8_PoppedKeyStays ==
    /\ PoppedLast =>
          /\ last.ret = Some(prev[last.k][1])
          /\ contains_key(inner, last.k)
          /\ inner[last.k] = <<>>
          /\ len(inner) = len(prev)
    /\ \A k \in Keys :
          (contains_key(inner, k) /\ inner[k] = <<>>) =>
              /\ get(inner, k) = None
              /\ get_mut(inner, k) = None
              /\ get_slice(inner, k) = Some(<<>>)
              /\ k \in keys(inner)
              /\ len(inner) = len(remove(inner, k).map) + 1
    /\ \A k \in Keys :
          (contains_key(prev, k) /\ prev[k] = <<>> /\ ~Touched(k)) =>
              (contains_key(inner, k) /\ inner[k] = <<>>)

C8_Witness ==
    /\ PoppedLast
    /\ last.ret # None
    /\ get_slice(inner, last.k) = Some(<<>>)
    /\ get(inner, last.k) = None
    /\ len(inner) = 2

\* C9: get_slice(k) and get_slice_mut(k) report absent exactly when k is not
\* in the table; for a key of the table they are its whole group in stored
\* order, and a write through get_slice_mut changes that one position.
C9_SliceAbsentIffNoKey ==
    /\ \A k \in Keys :
          /\ get_slice(inner, k) = None <=> ~contains_key(inner, k)
          /\ get_slice_mut(inner, k) = None <=> ~contains_key(inner, k)
          /\ contains_key(inner, k) =>
                /\ get_slice(inner, k) = Some(inner[k])
                /\ get_slice_mut(inner, k) = Some(inner[k])
    /\ last.op = "get_slice_mut" =>
          /\ last.ret = (IF contains_key(prev, last.k) THEN Some(prev[last.k]) ELSE None)
          /\ inner = IF last.i < Size(prev, last.k)
                     THEN [prev EXCEPT ![last.k][last.i + 1] = last.vs[1]]
                     ELSE prev

C9_Witness ==
    /\ \E k \in Keys : contains_key(inner, k) /\ inner[k] = <<>>
    /\ \E k \in Keys : ~contains_key(inner, k)
    /\ last.op = "pop"

InsertOps == {"insert", "insert_many", "insert_many_from_slice"}

\* C10: get(k) and get_mut(k) are the value at position 0 of get_slice(k),
\* absent exactly when k is not in the table or its group is empty; an
\* insert under k leaves the value get(k) returns unchanged, and a write
\* through get_mut changes position 0 only.
C10_GetIsFirst ==
    /\ \A k \in Keys :
          /\ get(inner, k) = None <=> (~contains_key(inner, k) \/ inner[k] = <<>>)
          /\ get_mut(inner, k) = get(inner, k)
          /\ get(inner, k) # None => get(inner, k) = Some(get_slice(inner, k)[1][1])
    /\ (last.op \in InsertOps /\ get(prev, last.k) # None) =>
          get(inner, last.k) = get(prev, last.k)
    /\ (last.op = "get_mut" /\ last.ret # None) =>
          /\ last.ret = Some(prev[last.k][1])
          /\ inner = [prev EXCEPT ![last.k] = <<last.vs[1]>> \o Tail(prev[last.k])]

C10_Witness ==
    /\ last.op = "insert_many"
    /\ get(prev, last.k) # None
    /\ Len(last.vs) = 2
    /\ last.vs[2] # prev[last.k][1]
    /\ get(inner, last.k) = Some(prev[last.k][1])

\* C11 as stated: map[k] on a key of the table returns the first value of k's
\* group and does not panic, whatever the group's length.
C11_IndexPresentReturnsFirst ==
    (last.op = "index" /\ contains_key(prev, last.k)) =>
        /\ last.ret.panic = ""
        /\ last.ret.val = get(prev, last.k)

\* C11 amended: map[k] on a key of the table whose group holds at least one
\* value returns the first value of the group, whatever its length, and does
\* not panic; on a key of the table whose group is empty it panics with an
\* out-of-bounds index.  The table is left as it was.
C11_IndexNonEmptyReturnsFirst ==
    (last.op = "index" /\ contains_key(prev, last.k)) =>
        /\ inner = prev
        /\ IF prev[last.k] # <<>>
           THEN /\ last.ret.panic = ""
                /\ last.ret.val = Some(prev[last.k][1])
                /\ last.ret.val = get(prev, last.k)
           ELSE /\ last.ret.panic = OutOfBounds
                /\ last.ret.val = None

C11_Witness ==
    /\ last.op = "index"
    /\ contains_key(prev, last.k)
    /\ Len(prev[last.k]) = 3
    /\ prev[last.k][1] # prev[last.k][3]
    /\ last.ret = Returned(prev[last.k][1])

\* C12: map[k] panics with "no entry found for key" exactly when k is not in
\* the table, and then yields no value; the absence is not returned as None.
C12_IndexAbsentPanics ==
    /\ last.op = "index" =>
          /\ last.ret.panic = NoEntry <=> ~contains_key(prev, last.k)
          /\ ~contains_key(prev, last.k) => last.ret.val = None
          /\ last.ret.panic = "" <=> last.ret.val # None
          /\ inner = prev
    /\ \A k \in Keys : index(inner, k).panic = NoEntry <=> get_slice(inner, k) = None

C12_Witness ==
    /\ last.op = "index"
    /\ ~contains_key(prev, last.k)
    /\ prev # new
    /\ last.ret = Panicked(NoEntry)

\* Table a and table b have the same number of keys, and every key of a is a
\* key of b with a group of the same length and equal values at each position.
SameGroups(a, b) ==
    /\ len(a) = len(b)
    /\ \A k \in keys(a) :
          /\ contains_key(b, k)
          /\ Len(a[k]) = Len(b[k])
          /\ \A i \in 1 .. Len(a[k]) : a[k][i] = b[k][i]

\* C13: a == b holds exactly when the tables have the same number of keys and
\* every key of a is in b with an equal group, position by position; tables
\* that differ in the copies of a value or in the order within a group are
\* unequal.
C13_EqIffSameGroups ==
    last.op = "eq" =>
        /\ last.ret = Some(TRUE) <=> SameGroups(inner, other)
        /\ last.ret = Some(TRUE) <=> inner = other
        /\ (\E k \in keys(inner) \cap keys(other) : inner[k] # other[k]) =>
              last.ret = Some(FALSE)

C13_Witness ==
    /\ last.op = "eq"
    /\ last.ret = Some(FALSE)
    /\ keys(inner) = keys(other)
    /\ \E k \in keys(inner) : inner[k] = <<42, 99>> /\ other[k] = <<99, 42>>
    /\ \A k \in keys(inner) : inner[k] # <<42, 99>> => inner[k] = other[k]

\* C14: == is symmetric, also between tables holding empty groups; tables
\* built by inserting under two keys in either order are equal; tables whose
\* groups for one key differ, if only in order, are unequal.
C14_EqSymmetric ==
    /\ last.op = "eq" =>
          /\ last.ret = Some(eq(other, inner))
          /\ \A k \in keys(inner) \cap keys(other) :
                (inner[k] # other[k]) => last.ret = Some(FALSE)
    /\ eq(inner, other) = eq(other, inner)
    /\ \A k1 \in Keys, k2 \in Keys, v \in Values, w \in Values :
          k1 # k2 =>
          eq(insert(insert(inner, k1, v), k2, w), insert(insert(inner, k2, w), k1, v))

C14_Witness ==
    /\ last.op = "eq"
    /\ last.ret = Some(FALSE)
    /\ len(inner) = 1
    /\ len(other) = 2
    /\ \A k \in keys(inner) : contains_key(other, k) /\ inner[k] = other[k]
    /\ \E k \in keys(other) : other[k] = <<>>

\* C15: is_vec(k) is true exactly when k is in the table and its group holds
\* more than one value; it is false for an absent key, for a key with one
\* value and for a key with an empty group.
C15_IsVec ==
    \A k \in Keys :
        /\ is_vec(inner, k) <=> (contains_key(inner, k) /\ Len(inner[k]) > 1)
        /\ ~contains_key(inner, k) => ~is_vec(inner, k)
        /\ get_slice(inner, k) = Some(<<>>) => ~is_vec(inner, k)
        /\ (contains_key(inner, k) /\ Len(inner[k]) = 1) => ~is_vec(inner, k)

C15_Witness ==
    /\ \E k \in Keys : is_vec(inner, k) /\ Len(inner[k]) = 2
    /\ \E k \in Keys : ~is_vec(inner, k) /\ contains_key(inner, k) /\ Len(inner[k]) = 1
    /\ last.op = "insert"

\* C16 as stated: iter() and iter_mut() yield one pair per key of the table,
\* len() pairs in all, each key paired with the first value of its group.
C16_IterOnePairPerKey ==
    /\ Cardinality(iter(inner)) = len(inner)
    /\ {kv[1] : kv \in iter(inner)} = keys(inner)
    /\ \A kv \in iter(inner) : Some(kv[2]) = get(inner, kv[1])
    /\ iter_mut(inner) = iter(inner)

\* The keys of the table whose group holds at least one value.
KeysWithValues(m) == {k \in keys(m) : m[k] # <<>>}

\* C16 amended: iter() and iter_mut() yield one pair per key of the table
\* whose group holds at least one value, each such key paired with the first
\* value of its group whatever the group's length; a key with an empty group
\* is skipped, so the pairs number len() only when no group is empty.
C16_IterOnePairPerNonEmptyKey ==
    /\ Cardinality(iter(inner)) = Cardinality(KeysWithValues(inner))
    /\ {kv[1] : kv \in iter(inner)} = KeysWithValues(inner)
    /\ \A kv \in iter(inner) : kv[2] = inner[kv[1]][1]
    /\ iter_mut(inner) = iter(inner)
    /\ NoEmptyGroup(inner) => Cardinality(iter(inner)) = len(inner)
    /\ ~NoEmptyGroup(inner) => Cardinality(iter(inner)) < len(inner)

C16_Witness ==
    /\ len(inner) = 2
    /\ \E k \in keys(inner) : inner[k] = <<>>
    /\ \E k \in keys(inner) :
          /\ Len(inner[k]) = 3
          /\ inner[k][1] # inner[k][3]
          /\ iter(inner) = {<<k, inner[k][1]>>}

\* C17: iter_all() yields one pair per key of the table, len() pairs over the
\* key set of keys(), and the group paired with k is get_slice(k), whole and
\* in stored order.
C17_IterAll ==
    /\ Cardinality(iter_all(inner)) = len(inner)
    /\ {kv[1] : kv \in iter_all(inner)} = keys(inner)
    /\ \A kv \in iter_all(inner) : Some(kv[2]) = get_slice(inner, kv[1])
    /\ \A k \in keys(inner) : \E kv \in iter_all(inner) : kv[1] = k /\ kv[2] = inner[k]

C17_Witness ==
    /\ Cardinality(iter_all(inner)) = 2
    /\ \E kv \in iter_all(inner) : kv[2] = <<>>
    /\ \E kv \in iter_all(inner) : Len(kv[2]) = 3 /\ kv[2][1] # kv[2][2]

\* C20: insert_many_from_slice(k, s) leaves the table exactly as
\* insert_many(k, s) does, for every state, key and s, the empty s included.
C20_FromSliceAsInsertMany ==
    /\ last.op = "insert_many_from_slice" =>
          inner = insert_many(prev, last.k, last.vs)
    /\ last.op = "insert_many" =>
          inner = insert_many_from_slice(prev, last.k, last.vs)
    /\ \A k \in Keys, s \in SeqsUpTo(Values, MaxMany) :
          insert_many_from_slice(inner, k, s) = insert_many(inner, k, s)

C20_Witness ==
    /\ last.op = "insert_many_from_slice"
    /\ Len(last.vs) = 2
    /\ last.vs[1] # last.vs[2]
    /\ contains_key(prev, last.k)
    /\ Len(prev[last.k]) = 1
    /\ prev[last.k][1] # last.vs[1]
    /\ inner[last.k] = <<prev[last.k][1], last.vs[1], last.vs[2]>>

\* The keys that occur in the pairs cs.
KeysOf(cs) == {cs[i][1] : i \in 1 .. Len(cs)}

\* C18: the table from_iter builds from a sequence of pairs has exactly the
\* keys occurring in the sequence, and iter_all pairs each key with the
\* values paired with it in the sequence, in their relative order.
C18_FromIter ==
    pc = Len(calls) =>
        /\ keys(inner) = KeysOf(calls)
        /\ {kv[1] : kv \in iter_all(inner)} = KeysOf(calls)
        /\ Cardinality(iter_all(inner)) = Cardinality(KeysOf(calls))
        /\ \A kv \in iter_all(inner) :
              /\ Len(kv[2]) = Len(ValuesFor(calls, kv[1]))
              /\ \A i \in 1 .. Len(kv[2]) : kv[2][i] = ValuesFor(calls, kv[1])[i]

C18_Witness ==
    /\ pc = Len(calls)
    /\ pc = 3
    /\ calls[1][1] = calls[3][1]
    /\ calls[2][1] # calls[1][1]
    /\ calls[1][2] # calls[3][2]
    /\ iter_all(inner) =
          {<<calls[1][1], <<calls[1][2], calls[3][2]>>>>, <<calls[2][1], <<calls[2][2]>>>>}

\* One insert call per pair of cs, the pairs taken in order.
RECURSIVE insert_calls(_, _)
insert_calls(m, cs) ==
    IF cs = <<>> THEN m
    ELSE LET c == cs[Len(cs)]
         IN  insert(insert_calls(m, SubSeq(cs, 1, Len(cs) - 1)), c[1], c[2])

\* One insert_many call per (key, group) pair of cs, the pairs taken in order.
RECURSIVE insert_many_calls(_, _)
insert_many_calls(m, cs) ==
    IF cs = <<>> THEN m
    ELSE LET c == cs[Len(cs)]
         IN  insert_many(insert_many_calls(m, SubSeq(cs, 1, Len(cs) - 1)), c[1], c[2])

\* C19: extend from (key, value) pairs leaves the table as one insert call
\* per pair, in order, would; extend from (key, group) pairs leaves it as
\* one insert_many(key, group) call per pair, in order, would.
C19_ExtendAsCalls ==
    /\ last.op = "extend" => inner = insert_calls(prev, last.vs)
    /\ last.op = "extend_vecs" => inner = insert_many_calls(prev, last.vs)

C19_Witness ==
    /\ last.op = "extend_vecs"
    /\ Len(last.vs) = 2
    /\ last.vs[1][1] # last.vs[2][1]
    /\ Size(prev, last.vs[1][1]) = 1
    /\ ~contains_key(prev, last.vs[2][1])
    /\ Len(last.vs[1][2]) = 2
    /\ Len(last.vs[2][2]) = 2
    /\ inner[last.vs[1][1]] = prev[last.vs[1][1]] \o last.vs[1][2]
    /\ inner[last.vs[2][1]] = last.vs[2][2]

\* The number of values the table holds, over all keys.
RECURSIVE TotalValues(_)
TotalValues(m) ==
    IF DOMAIN m = {} THEN 0
    ELSE LET k == CHOOSE x \in DOMAIN m : TRUE
         IN  Len(m[k]) + TotalValues([x \in (DOMAIN m) \ {k} |-> m[x]])

\* C21: len() is the number of distinct keys of the table; insert and
\* insert_many raise it by one exactly when their key was absent, remove of a
\* present key lowers it by one, and is_empty() holds exactly when len() is 0.
C21_LenCountsKeys ==
    /\ len(inner) = Cardinality({k \in Keys : contains_key(inner, k)})
    /\ is_empty(inner) <=> (len(inner) = 0)
    /\ last.op \in {"insert", "insert_many"} =>
          len(inner) = len(prev) + (IF contains_key(prev, last.k) THEN 0 ELSE 1)
    /\ (last.op = "remove" /\ contains_key(prev, last.k)) =>
          len(inner) = len(prev) - 1

C21_Witness ==
    /\ last.op = "insert_many"
    /\ ~contains_key(prev, last.k)
    /\ len(prev) = 1
    /\ len(inner) = 2
    /\ TotalValues(inner) > len(inner)

\* C22: after clear() the table holds no key and no group: is_empty() holds,
\* len() is 0, every key reads as absent, and the table is the one new()
\* creates, so every later operation acts on it as on a new table.
C22_Clear ==
    last.op = "clear" =>
        /\ is_empty(inner)
        /\ len(inner) = 0
        /\ \A k \in Keys :
              /\ ~contains_key(inner, k)
              /\ get(inner, k) = None
              /\ get_slice(inner, k) = None
        /\ inner = new
        /\ \A k \in Keys, v \in Values : insert(inner, k, v) = insert(new, k, v)
        /\ \A k \in Keys, s \in SeqsUpTo(Values, MaxMany) :
              insert_many(inner, k, s) = insert_many(new, k, s)
        /\ \A k \in Keys : remove(inner, k) = remove(new, k)
        /\ \A p \in Predicates : retain(inner, p) = retain(new, p)
        /\ eq(inner, new) /\ eq(new, inner)

C22_Witness ==
    /\ last.op = "clear"
    /\ len(prev) = 2
    /\ \E k \in Keys : Size(prev, k) = 2
    /\ inner = new

ReadOps ==
    {"contains_key", "len", "is_empty", "get", "get_slice", "is_vec", "keys",
     "iter", "iter_all"}

MutAccessOps == {"get_mut", "get_slice_mut", "iter_mut", "iter_all_mut"}

\* The tables a and b have the same keys and, key by key, groups of the same
\* length.
SameShape(a, b) ==
    /\ DOMAIN a = DOMAIN b
    /\ \A k \in DOMAIN a : Len(a[k]) = Len(b[k])

\* C23: contains_key, len, is_empty, get, get_slice, is_vec, keys, iter,
\* iter_all and an index that returns leave the table as it was; writes through
\* get_mut, get_slice_mut, iter_mut and iter_all_mut leave the key set and the
\* length of every group as they were.
C23_ReadsKeepStructure ==
    /\ last.op \in ReadOps => inner = prev
    /\ (last.op = "index" /\ last.ret.val # None) => inner = prev
    /\ last.op \in MutAccessOps => SameShape(inner, prev)

C23_Witness ==
    /\ last.op = "iter_all_mut"
    /\ len(prev) = 2
    /\ Size(prev, last.k) = 2
    /\ inner[last.k][1] # prev[last.k][1]
    /\ inner[last.k][2] # prev[last.k][2]
    /\ SameShape(inner, prev)

LookupOps == {"get", "get_mut", "get_slice", "get_slice_mut", "get_all_mut", "remove"}

\* C24: on a key the table does not hold, get, get_mut, get_slice,
\* get_slice_mut, get_all_mut and remove return None, contains_key and is_vec
\* return false, and the table is left as it was.
C24_AbsentKeyIsNoFault ==
    (last.k \in Keys /\ ~contains_key(prev, last.k)) =>
        /\ last.op \in LookupOps => (last.ret = None /\ inner = prev)
        /\ last.op = "get_all_mut" => handle = NoHandle
        /\ last.op \in {"contains_key", "is_vec"} =>
              (last.ret = Some(FALSE) /\ inner = prev)
        /\ (last.op \in LookupOps \cup {"contains_key", "is_vec"}) =>
              (keys(inner) = keys(prev) /\ len(inner) = len(prev))

C24_Witness ==
    /\ last.op = "remove"
    /\ ~contains_key(prev, last.k)
    /\ last.ret = None
    /\ len(prev) = 1
    /\ inner = prev

\* C25: insert(k, v) changes only the entry of k: an absent k gets the group
\* [v], a present k gets v after its values, which keep their order, and every
\* other key keeps its group.
C25_InsertChangesOnlyKey ==
    last.op = "insert" =>
        /\ keys(inner) = keys(prev) \cup {last.k}
        /\ get_slice(inner, last.k) =
              Some(IF contains_key(prev, last.k)
                   THEN prev[last.k] \o last.vs
                   ELSE last.vs)
        /\ \A k \in Keys \ {last.k} : get_slice(inner, k) = get_slice(prev, k)

C25_Witness ==
    /\ last.op = "insert"
    /\ len(prev) = 2
    /\ Size(prev, last.k) = 2
    /\ prev[last.k][1] # prev[last.k][2]
    /\ inner[last.k] = prev[last.k] \o last.vs
    /\ \E k \in Keys \ {last.k} : Size(inner, k) > 0 /\ inner[k] = prev[k]

HandleOps == {"push", "pop", "as_slice"}

\* C26: get_all_mut(k) on a present key gives a handle on k's group; through
\* it push(v) puts v last, as insert(k, v) does, pop takes the last value out
\* and returns it, or returns None on an empty group, and a write through
\* as_slice replaces one value and keeps the length; none of the three changes
\* the key set or another key's group.
C26_HandleOps ==
    /\ (last.op = "get_all_mut" /\ contains_key(prev, last.k)) =>
          (last.ret # None /\ handle = last.k /\ inner = prev)
    /\ last.op = "push" =>
          /\ inner[last.k] = prev[last.k] \o last.vs
          /\ inner = insert(prev, last.k, last.vs[1])
    /\ last.op = "pop" =>
          IF prev[last.k] = <<>>
          THEN last.ret = None /\ inner = prev
          ELSE /\ last.ret = Some(prev[last.k][Len(prev[last.k])])
               /\ inner[last.k] = SubSeq(prev[last.k], 1, Len(prev[last.k]) - 1)
    /\ last.op = "as_slice" =>
          /\ Len(inner[last.k]) = Len(prev[last.k])
          /\ inner[last.k][last.i + 1] = last.vs[1]
          /\ \A j \in 1 .. Len(prev[last.k]) :
                j # last.i + 1 => inner[last.k][j] = prev[last.k][j]
    /\ last.op \in HandleOps =>
          /\ handle = last.k
          /\ keys(inner) = keys(prev)
          /\ \A k \in keys(prev) \ {last.k} : inner[k] = prev[k]

C26_Witness ==
    /\ last.op = "pop"
    /\ len(prev) = 2
    /\ Size(prev, last.k) = 2
    /\ prev[last.k][1] # prev[last.k][2]
    /\ last.ret = Some(prev[last.k][2])
    /\ inner[last.k] = <<prev[last.k][1]>>
    /\ \E k \in Keys \ {last.k} : Size(inner, k) > 0

\* C27: the table multimap! builds from a list of key => value pairs equals
\* the table built by insert on a new table for each listed pair in listed
\* order, also when a key is listed several times.
C27_MacroAsInserts ==
    last.op = "multimap" =>
        /\ eq(other, inner)
        /\ eq(inner, other)
        /\ \A k \in Keys : get_slice(inner, k) = get_slice(other, k)

C27_Witness ==
    /\ last.op = "multimap"
    /\ Len(calls) = 3
    /\ calls[1][1] = calls[2][1]
    /\ calls[1][2] # calls[2][2]
    /\ calls[3][1] # calls[1][1]
    /\ inner[calls[1][1]] = <<calls[1][2], calls[2][2]>>
    /\ eq(other, inner)

\* C28: insert_many(k, <<>>) on an absent key leaves a table unequal to every
\* table in which k holds a value, and an insert_many(k, s) with values that
\* finds k with the empty group leaves a table equal to the one built by
\* inserting the values of s under k into a table that never held k.
C28_EmptyInsertManyLeavesNoTrace ==
    /\ (last.op = "insert_many" /\ last.vs = <<>> /\ ~contains_key(prev, last.k)) =>
          \A b \in Tables(MaxEqLen) :
              Size(b, last.k) > 0 => (~eq(inner, b) /\ ~eq(b, inner))
    /\ (last.op = "insert_many" /\ last.vs # <<>> /\ get_slice(prev, last.k) = Some(<<>>)) =>
          LET direct == insert_each(remove(prev, last.k).map, last.k, last.vs)
          IN  eq(inner, direct) /\ eq(direct, inner)

C28_Witness ==
    /\ last.op = "insert_many"
    /\ Len(last.vs) = 1
    /\ get_slice(prev, last.k) = Some(<<>>)
    /\ len(prev) = 2
    /\ eq(insert(remove(prev, last.k).map, last.k, last.vs[1]), inner)

GrowOps == {"insert", "insert_many", "insert_many_from_slice"}

\* C29: started from a table that holds every key, a key that remove, retain
\* or clear dropped is absent, stays absent under calls on other keys, and
\* comes back only through an insert of it, with the inserted values alone:
\* insert(k, v) on it makes get_slice(k) exactly [v].
C29_DroppedValuesStayGone ==
    /\ last.op = "remove" => ~contains_key(inner, last.k)
    /\ last.op = "clear" => keys(inner) = {}
    /\ last.op = "retain" =>
          \A k \in keys(prev) :
              IF \E i \in 1 .. Len(prev[k]) : <<k, prev[k][i]>> \in last.p
              THEN contains_key(inner, k)
              ELSE ~contains_key(inner, k)
    /\ \A k \in keys(inner) \ keys(prev) :
          /\ last.op \in GrowOps
          /\ last.k = k
          /\ get_slice(inner, k) = Some(last.vs)
    /\ (last.op = "insert" /\ ~contains_key(prev, last.k)) =>
          get_slice(inner, last.k) = Some(last.vs)

C29_Witness ==
    /\ last.op = "insert"
    /\ ~contains_key(prev, last.k)
    /\ len(prev) = 1
    /\ get_slice(inner, last.k) = Some(last.vs)

AlwaysTrue == Keys \X Values

\* C30: retain(p) applied to the table retain(p) left changes nothing, and
\* retain with the always-true predicate keeps every group as it was and only
\* removes the keys whose group was already empty.
C30_RetainIdempotent ==
    last.op = "retain" =>
        /\ inner = retain(prev, last.p)
        /\ retain(inner, last.p) = inner
        /\ retain(retain(prev, last.p), last.p) = retain(prev, last.p)
        /\ last.p = AlwaysTrue =>
              /\ keys(inner) = {k \in keys(prev) : prev[k] # <<>>}
              /\ \A k \in keys(inner) : inner[k] = prev[k]

C30_Witness ==
    /\ last.op = "retain"
    /\ \E k \in keys(prev) : Size(prev, k) = 3 /\ Size(inner, k) = 1
    /\ \E k \in keys(prev) : ~contains_key(inner, k)
    /\ retain(inner, last.p) = inner

====
